---------------------------- MODULE Spec2Model ----------------------------
(***************************************************************************)
(* AidAccessEscrowV2 (contracts/AidAccessEscrowV2.sol, carried in          *)
(* src/scripts/compute-hash-publish.js lines 191-473) as a state machine.  *)
(*                                                                         *)
(* One action is one transaction: an external call of one contract         *)
(* function at block time `now`.  A transaction that reverts leaves the    *)
(* contract storage and the token balances as they were (EVM semantics).   *)
(* For every function f the operator fErr gives the outcome of a call in   *)
(* the current state: OK or the revert reason.                             *)
(* uint256 is scaled down to 0..UintMax; Solidity 0.8 checked arithmetic   *)
(* reverts (Panic) on overflow.                                            *)
(***************************************************************************)
EXTENDS Integers, FiniteSets, Sequences, TLC

(***************************************************************************)
(* Bounds of the model                                                     *)
(***************************************************************************)
UintMax == 7          \* largest value of the (scaled) unsigned integer type
MaxTime == 5          \* block.timestamp ranges over 1..MaxTime
TotalSupply == 2      \* tokens of the stable token in existence

NullAddr == 0         \* address(0)
Addr == {0, 1, 2}     \* address arguments
Callers == {1, 2}     \* msg.sender
Attestors == {2}      \* identities for which attestors.isAttestor is true
PeriodKeys == {1, 2}  \* bytes32 period identifiers
Hashes == {0, 1}      \* bytes32 source hashes
Kinds == {1, 2, 3}    \* uint8 kind arguments: 1, 2 and an unrecognised one
Amounts == {0, 1, 2}               \* uint256 amounts of deposit / recover
TimelockChoices == {0, 2}          \* constructor argument _timelockSeconds

(***************************************************************************)
(* Outcomes of a call: OK or the revert reason                             *)
(***************************************************************************)
OK == "ok"
NotGuardian == "AAS: not guardian"
SystemSuspended == "AAS: contract disabled"
NotAttestor == "AAS: not attestor"
ZeroValue == "AAS: zero value"
UnknownKind == "AAS: bad kind"
OperatorNotAllowed == "AAS: operator not allowed"
AlreadyPaid == "AAS: already paid"
TargetsNotMet == "AAS: targets not met"
TransferFailed == "AAS: transfer failed"
DisableNotRequested == "AAS: disable not requested"
EnableNotRequested == "AAS: enable not requested"
TimelockNotElapsed == "AAS: timelock not elapsed"
ZeroAddr == "AAS: zero addr"
ZeroDeposit == "AAS: zero deposit"
TransferFromFailed == "AAS: transferFrom failed"
GuardianZero == "AAS: guardian zero"
Panic == "Panic(0x11)"

VARIABLES
    guardianMultisig,    \* address
    sourceHash,          \* bytes32
    disabled,            \* bool
    disableRequestedAt,  \* uint256, 0 = nothing requested
    disableTimelock,     \* uint256
    hoursTarget,         \* uint256
    kgTarget,            \* uint256
    tranche,             \* uint256
    periods,             \* mapping(bytes32 => Period)
    operatorAllowlist,   \* mapping(address => bool)
    now,                 \* block.timestamp of the current block
    stableBalance,       \* stable.balanceOf(address(this)), state of the token
    request,             \* history: the latest request call (kind, time, what it overwrote)
    attested,            \* history: per period and kind, sum of the values applied
    paidOut              \* history: per period, number of tranche transfers made

storage == <<guardianMultisig, sourceHash, disabled, disableRequestedAt,
             disableTimelock, hoursTarget, kgTarget, tranche, periods,
             operatorAllowlist>>
history == <<request, attested, paidOut>>
vars == <<storage, stableBalance, now, history>>

Period == [corridorHours : 0..UintMax, kgDelivered : 0..UintMax,
           paid : BOOLEAN, createdAt : 0..MaxTime]
ZeroPeriod == [corridorHours |-> 0, kgDelivered |-> 0, paid |-> FALSE, createdAt |-> 0]

NoRequest == [kind |-> "none", at |-> 0, overwrote |-> 0]

(***************************************************************************)
(* State after the constructor                                             *)
(***************************************************************************)
\* require(_guardian != address(0)) in the constructor
constructorErr(guardian) == IF ~(guardian # NullAddr) THEN GuardianZero ELSE OK

Init ==
    /\ guardianMultisig = 1
    /\ constructorErr(guardianMultisig) = OK
    /\ sourceHash = 0
    /\ disabled = FALSE
    /\ disableRequestedAt = 0
    /\ disableTimelock \in TimelockChoices \cup {1}
    /\ hoursTarget = 6
    /\ kgTarget = 3
    /\ tranche = 1
    /\ periods = [k \in PeriodKeys |-> ZeroPeriod]
    /\ operatorAllowlist = [a \in Addr |-> FALSE]
    /\ now = 1
    /\ stableBalance = 0
    /\ request = NoRequest
    /\ attested = [k \in PeriodKeys |-> [i \in {1, 2} |-> 0]]
    /\ paidOut = [k \in PeriodKeys |-> 0]

(***************************************************************************)
(* Modifiers and the attestor registry                                     *)
(***************************************************************************)
\* mutant: any caller passes
onlyGuardianAnyone(caller) == TRUE

onlyGuardian(caller) == caller = guardianMultisig
notDisabled == ~disabled
isAttestor(who) == who \in Attestors

(***************************************************************************)
(* The stable token (IERC20Minimal), as far as the escrow sees it: what    *)
(* a transfer returns.  ok is the token's own willingness; it cannot move  *)
(* more than the payer holds.                                              *)
(***************************************************************************)
transferFromOk(amount, ok) == ok /\ stableBalance + amount <= TotalSupply
transferOk(amount, ok) == ok /\ amount <= stableBalance

(***************************************************************************)
(* deposit(amount): anyone                                                 *)
(***************************************************************************)
depositErr(amount, ok) ==
    IF ~(amount > 0) THEN ZeroDeposit
    ELSE IF ~transferFromOk(amount, ok) THEN TransferFromFailed
    ELSE OK

Deposit(caller, amount, ok) ==
    /\ stableBalance' = IF depositErr(amount, ok) = OK
                        THEN stableBalance + amount
                        ELSE stableBalance
    /\ UNCHANGED <<storage, now, history>>

(***************************************************************************)
(* setOperator(op, ok): guardian only, overwrites the allowlist entry      *)
(***************************************************************************)
setOperatorErr(caller) == IF ~onlyGuardian(caller) THEN NotGuardian ELSE OK

SetOperator(caller, op, ok) ==
    /\ operatorAllowlist' = IF setOperatorErr(caller) = OK
                            THEN [operatorAllowlist EXCEPT ![op] = ok]
                            ELSE operatorAllowlist
    /\ UNCHANGED <<guardianMultisig, sourceHash, disabled, disableRequestedAt,
                   disableTimelock, hoursTarget, kgTarget, tranche, periods,
                   stableBalance, now, history>>

(***************************************************************************)
(* setSourceHash(newHash): guardian only, unconditional overwrite          *)
(***************************************************************************)
setSourceHashErr(caller) == IF ~onlyGuardian(caller) THEN NotGuardian ELSE OK

\* mutant: publishing a source hash also lowers the hours threshold
SetSourceHashLowersTarget(caller, newHash) ==
    /\ sourceHash' = IF setSourceHashErr(caller) = OK THEN newHash ELSE sourceHash
    /\ hoursTarget' = IF setSourceHashErr(caller) = OK THEN 0 ELSE hoursTarget
    /\ UNCHANGED <<guardianMultisig, disabled, disableRequestedAt,
                   disableTimelock, kgTarget, tranche, periods,
                   operatorAllowlist, stableBalance, now, history>>

SetSourceHash(caller, newHash) ==
    /\ sourceHash' = IF setSourceHashErr(caller) = OK THEN newHash ELSE sourceHash
    /\ UNCHANGED <<guardianMultisig, disabled, disableRequestedAt,
                   disableTimelock, hoursTarget, kgTarget, tranche, periods,
                   operatorAllowlist, stableBalance, now, history>>

(***************************************************************************)
(* A failed require, a revert or an arithmetic panic undoes every storage  *)
(* write the call has made so far.                                         *)
(***************************************************************************)
\* mutant: the writes made before the revert stay
rollbackNot(err, written, before) == written

rollback(err, written, before) == IF err = OK THEN written ELSE before

(***************************************************************************)
(* attest(periodId, kind, value, metaHash)                                 *)
(***************************************************************************)
\* x += value under checked arithmetic reverts when the sum does not fit
Overflows(x, value) == x + value > UintMax

\* mutant: a paid period takes no more attestations
attestErrClosedWhenPaid(caller, periodId, kind, value) ==
    IF ~notDisabled THEN SystemSuspended
    ELSE IF ~isAttestor(caller) THEN NotAttestor
    ELSE IF ~(value > 0) THEN ZeroValue
    ELSE IF periods[periodId].paid THEN AlreadyPaid
    ELSE IF kind = 1
         THEN IF Overflows(periods[periodId].corridorHours, value) THEN Panic ELSE OK
    ELSE IF kind = 2
         THEN IF Overflows(periods[periodId].kgDelivered, value) THEN Panic ELSE OK
    ELSE UnknownKind

\* mutant: the additions are unchecked
attestErrUnchecked(caller, periodId, kind, value) ==
    IF ~notDisabled THEN SystemSuspended
    ELSE IF ~isAttestor(caller) THEN NotAttestor
    ELSE IF ~(value > 0) THEN ZeroValue
    ELSE IF kind \in {1, 2} THEN OK
    ELSE UnknownKind

attestErr(caller, periodId, kind, value) ==
    IF ~notDisabled THEN SystemSuspended
    ELSE IF ~isAttestor(caller) THEN NotAttestor
    ELSE IF ~(value > 0) THEN ZeroValue
    ELSE IF kind = 1
         THEN IF Overflows(periods[periodId].corridorHours, value) THEN Panic ELSE OK
    ELSE IF kind = 2
         THEN IF Overflows(periods[periodId].kgDelivered, value) THEN Panic ELSE OK
    ELSE UnknownKind

\* mutant: the value replaces the accumulator instead of being added
attestPeriodOverwrite(p, kind, value) ==
    LET q == IF p.createdAt = 0 THEN [p EXCEPT !.createdAt = now] ELSE p
    IN  IF kind = 1
        THEN [q EXCEPT !.corridorHours = value]
        ELSE [q EXCEPT !.kgDelivered = value]

\* mutant: an attestation on an accumulator that has met its target clears it
attestPeriodClearsWhenMet(p, kind, value) ==
    LET q == IF p.createdAt = 0 THEN [p EXCEPT !.createdAt = now] ELSE p
    IN  IF kind = 1
        THEN [q EXCEPT !.corridorHours =
                 IF q.corridorHours >= hoursTarget THEN 0 ELSE q.corridorHours + value]
        ELSE [q EXCEPT !.kgDelivered =
                 IF q.kgDelivered >= kgTarget THEN 0 ELSE q.kgDelivered + value]

\* mutant: hours are added to the kg accumulator and kg to the hours
attestPeriodSwapped(p, kind, value) ==
    LET q == IF p.createdAt = 0 THEN [p EXCEPT !.createdAt = now] ELSE p
    IN  IF kind = 2
        THEN [q EXCEPT !.corridorHours = q.corridorHours + value]
        ELSE [q EXCEPT !.kgDelivered = q.kgDelivered + value]

\* mutant: createdAt is stamped by every attestation
attestPeriodRestamp(p, kind, value) ==
    LET q == [p EXCEPT !.createdAt = now]
    IN  IF kind = 1
        THEN [q EXCEPT !.corridorHours = q.corridorHours + value]
        ELSE [q EXCEPT !.kgDelivered = q.kgDelivered + value]

\* the Period record after a successful attest
attestPeriod(p, kind, value) ==
    LET q == IF p.createdAt = 0 THEN [p EXCEPT !.createdAt = now] ELSE p
    IN  IF kind = 1
        THEN [q EXCEPT !.corridorHours = q.corridorHours + value]
        ELSE [q EXCEPT !.kgDelivered = q.kgDelivered + value]

\* the periods mapping as the body of attest has written it when the call
\* returns or reverts: nothing before the two requires pass, createdAt from
\* then on, and the accumulator only if the kind is known and the sum fits
attestWrites(caller, periodId, kind, value) ==
    LET err == attestErr(caller, periodId, kind, value)
        p == periods[periodId]
        q == IF p.createdAt = 0 THEN [p EXCEPT !.createdAt = now] ELSE p
    IN  IF err \in {SystemSuspended, NotAttestor, ZeroValue} THEN periods
        ELSE IF err = OK
             THEN [periods EXCEPT ![periodId] = attestPeriod(p, kind, value)]
        ELSE [periods EXCEPT ![periodId] = q]

Attest(caller, periodId, kind, value) ==
    LET err == attestErr(caller, periodId, kind, value)
    IN  /\ periods' = rollback(err, attestWrites(caller, periodId, kind, value), periods)
        /\ attested' = IF err = OK
                       THEN [attested EXCEPT ![periodId][kind] = @ + value]
                       ELSE attested
        /\ UNCHANGED <<guardianMultisig, sourceHash, disabled, disableRequestedAt,
                       disableTimelock, hoursTarget, kgTarget, tranche,
                       operatorAllowlist, stableBalance, now, request, paidOut>>

(***************************************************************************)
(* disburse(periodId, to): anyone may call.  The requires are evaluated    *)
(* on a periods mapping ps (the storage the call sees); paid is set before *)
(* stable.transfer, during which the token may call back into disburse.    *)
(***************************************************************************)
\* mutant: one threshold is enough
meetsEitherTarget(p) == p.corridorHours >= hoursTarget \/ p.kgDelivered >= kgTarget

meetsTargets(p) == p.corridorHours >= hoursTarget /\ p.kgDelivered >= kgTarget

\* mutant: the paid flag is not consulted
disburseRequiresNoPaidCheck(ps, periodId, to) ==
    IF ~notDisabled THEN SystemSuspended
    ELSE IF ~operatorAllowlist[to] THEN OperatorNotAllowed
    ELSE IF ~meetsTargets(ps[periodId]) THEN TargetsNotMet
    ELSE OK

\* mutant: the target is not looked up in the allowlist
disburseRequiresAnyTarget(ps, periodId, to) ==
    IF ~notDisabled THEN SystemSuspended
    ELSE IF ps[periodId].paid THEN AlreadyPaid
    ELSE IF ~meetsTargets(ps[periodId]) THEN TargetsNotMet
    ELSE OK

disburseRequires(ps, periodId, to) ==
    IF ~notDisabled THEN SystemSuspended
    ELSE IF ~operatorAllowlist[to] THEN OperatorNotAllowed
    ELSE IF ps[periodId].paid THEN AlreadyPaid
    ELSE IF ~meetsTargets(ps[periodId]) THEN TargetsNotMet
    ELSE OK

\* mutant: the paid flag is not written
markPaidNot(ps, periodId) == ps

\* mutant: the paid flag of every period is written
markPaidEvery(ps, periodId) == [k \in DOMAIN ps |-> [ps[k] EXCEPT !.paid = TRUE]]

markPaid(ps, periodId) == [ps EXCEPT ![periodId].paid = TRUE]

\* a call back into disburse made by the token from inside transfer, or none
NoReentry == [key |-> 0, to |-> NullAddr]
Reentries(keys, addrs) == {NoReentry} \cup [key : keys, to : addrs]

\* mutant: the re-entrant call sees the storage as it was before paid was set
reentryErrPaidLate(periodId, re) ==
    LET req == disburseRequires(periods, re.key, re.to)
    IN  IF req # OK THEN req
        ELSE IF ~(2 * tranche <= stableBalance) THEN TransferFailed
        ELSE OK

\* outcome of the re-entrant call, made when paid is already set for periodId;
\* its own transfer needs a second tranche in the escrow
reentryErr(periodId, re) ==
    LET req == disburseRequires(markPaid(periods, periodId), re.key, re.to)
    IN  IF req # OK THEN req
        ELSE IF ~(2 * tranche <= stableBalance) THEN TransferFailed
        ELSE OK
reentryPays(periodId, re) == re # NoReentry /\ reentryErr(periodId, re) = OK

\* ok: what the token is willing to answer to stable.transfer(to, tranche)
disburseErr(periodId, to, ok) ==
    LET req == disburseRequires(periods, periodId, to)
    IN  IF req # OK THEN req
        ELSE IF ~transferOk(tranche, ok) THEN TransferFailed
        ELSE OK

\* number of tranches that leave the escrow for period k in a successful call
tranchesFor(k, periodId, re) ==
    (IF k = periodId THEN 1 ELSE 0)
    + (IF reentryPays(periodId, re) /\ k = re.key THEN 1 ELSE 0)

\* the periods mapping as the body of disburse has written it when the call
\* returns or reverts: paid is set once the requires pass, before the transfer
disburseWrites(periodId, to, re) ==
    LET ps1 == markPaid(periods, periodId)
    IN  IF disburseRequires(periods, periodId, to) # OK THEN periods
        ELSE IF reentryPays(periodId, re) THEN markPaid(ps1, re.key)
        ELSE ps1

\* mutant: only the operator itself may collect its tranche
DisburseByOperatorOnly(caller, periodId, to, ok, re) ==
    LET err == IF caller # to THEN OperatorNotAllowed
               ELSE disburseErr(periodId, to, ok)
    IN  /\ periods' = rollback(err, disburseWrites(periodId, to, re), periods)
        /\ IF err = OK
           THEN /\ paidOut' = [k \in DOMAIN paidOut |->
                                 paidOut[k] + tranchesFor(k, periodId, re)]
                /\ stableBalance' = stableBalance - tranche
                       - (IF reentryPays(periodId, re) THEN tranche ELSE 0)
           ELSE UNCHANGED <<paidOut, stableBalance>>
        /\ UNCHANGED <<guardianMultisig, sourceHash, disabled, disableRequestedAt,
                       disableTimelock, hoursTarget, kgTarget, tranche,
                       operatorAllowlist, now, request, attested>>

Disburse(caller, periodId, to, ok, re) ==
    LET err == disburseErr(periodId, to, ok)
    IN  /\ periods' = rollback(err, disburseWrites(periodId, to, re), periods)
        /\ IF err = OK
           THEN /\ paidOut' = [k \in DOMAIN paidOut |->
                                 paidOut[k] + tranchesFor(k, periodId, re)]
                /\ stableBalance' = stableBalance - tranche
                       - (IF reentryPays(periodId, re) THEN tranche ELSE 0)
           ELSE UNCHANGED <<paidOut, stableBalance>>
        /\ UNCHANGED <<guardianMultisig, sourceHash, disabled, disableRequestedAt,
                       disableTimelock, hoursTarget, kgTarget, tranche,
                       operatorAllowlist, now, request, attested>>

\* getPeriod(periodId): the four fields of the stored record
getPeriod(periodId) ==
    <<periods[periodId].corridorHours, periods[periodId].kgDelivered,
      periods[periodId].paid, periods[periodId].createdAt>>

\* mutant: reading a period that does not exist yet creates it
ViewCallCreates(periodId) ==
    /\ periods' = [periods EXCEPT ![periodId].createdAt =
                       IF @ = 0 THEN now ELSE @]
    /\ UNCHANGED <<guardianMultisig, sourceHash, disabled, disableRequestedAt,
                   disableTimelock, hoursTarget, kgTarget, tranche,
                   operatorAllowlist, stableBalance, now, history>>

\* a call of getPeriod or periodMeetsTargets: both are declared view, they
\* return a value and write nothing
ViewCall(periodId) == UNCHANGED vars

\* mutant: the view does not look at the disabled flag
periodMeetsTargetsWhileDisabled(periodId) ==
    IF periods[periodId].paid THEN FALSE
    ELSE meetsTargets(periods[periodId])

\* periodMeetsTargets(periodId): the view the spec calls isPayable
periodMeetsTargets(periodId) ==
    IF periods[periodId].paid THEN FALSE
    ELSE meetsTargets(periods[periodId]) /\ ~disabled

(***************************************************************************)
(* Timelocked disable / enable (guardian only).  Both requests write the   *)
(* one field disableRequestedAt, and both finalizes read it.               *)
(***************************************************************************)
\* mutant: a pending request keeps its timestamp
stampRequestKeep == IF disableRequestedAt > 0 THEN disableRequestedAt ELSE now

\* disableRequestedAt = block.timestamp, whatever was pending
stampRequest == now

requestDisableErr(caller) == IF ~onlyGuardian(caller) THEN NotGuardian ELSE OK

\* history of requests: the kind and time of this one and the pending time it replaced
Requested(kind) == [kind |-> kind, at |-> now, overwrote |-> request.at]

RequestDisable(caller) ==
    LET err == requestDisableErr(caller)
    IN  /\ disableRequestedAt' = IF err = OK THEN stampRequest ELSE disableRequestedAt
        /\ request' = IF err = OK THEN Requested("disable") ELSE request
        /\ UNCHANGED <<guardianMultisig, sourceHash, disabled, disableTimelock,
                       hoursTarget, kgTarget, tranche, periods, operatorAllowlist,
                       stableBalance, now, attested, paidOut>>

\* mutant: the comparison is strict
timelockErrStrict ==
    IF disableRequestedAt + disableTimelock > UintMax THEN Panic
    ELSE IF ~(now > disableRequestedAt + disableTimelock) THEN TimelockNotElapsed
    ELSE OK

\* mutant: the timelock is not compared at all
timelockErrNone ==
    IF disableRequestedAt + disableTimelock > UintMax THEN Panic ELSE OK

\* block.timestamp >= disableRequestedAt + disableTimelock, the sum checked
timelockErr ==
    IF disableRequestedAt + disableTimelock > UintMax THEN Panic
    ELSE IF ~(now >= disableRequestedAt + disableTimelock) THEN TimelockNotElapsed
    ELSE OK

finalizeDisableErr(caller) ==
    IF ~onlyGuardian(caller) THEN NotGuardian
    ELSE IF ~(disableRequestedAt > 0) THEN DisableNotRequested
    ELSE timelockErr

\* mutant: the request is consumed but the flag is not set
FinalizeDisableKeepsFlag(caller) ==
    LET err == finalizeDisableErr(caller)
    IN  /\ disableRequestedAt' = IF err = OK THEN 0 ELSE disableRequestedAt
        /\ request' = IF err = OK THEN NoRequest ELSE request
        /\ UNCHANGED <<guardianMultisig, sourceHash, disabled, disableTimelock,
                       hoursTarget, kgTarget, tranche, periods, operatorAllowlist,
                       stableBalance, now, attested, paidOut>>

\* mutant: the flag is set but the request stays pending
FinalizeDisableKeepsRequest(caller) ==
    LET err == finalizeDisableErr(caller)
    IN  /\ disabled' = IF err = OK THEN TRUE ELSE disabled
        /\ UNCHANGED <<guardianMultisig, sourceHash, disableRequestedAt, request,
                       disableTimelock, hoursTarget, kgTarget, tranche, periods,
                       operatorAllowlist, stableBalance, now, attested, paidOut>>

FinalizeDisable(caller) ==
    LET err == finalizeDisableErr(caller)
    IN  /\ disabled' = IF err = OK THEN TRUE ELSE disabled
        /\ disableRequestedAt' = IF err = OK THEN 0 ELSE disableRequestedAt
        /\ request' = IF err = OK THEN NoRequest ELSE request
        /\ UNCHANGED <<guardianMultisig, sourceHash, disableTimelock,
                       hoursTarget, kgTarget, tranche, periods, operatorAllowlist,
                       stableBalance, now, attested, paidOut>>

requestEnableErr(caller) == IF ~onlyGuardian(caller) THEN NotGuardian ELSE OK

RequestEnable(caller) ==
    LET err == requestEnableErr(caller)
    IN  /\ disableRequestedAt' = IF err = OK THEN stampRequest ELSE disableRequestedAt
        /\ request' = IF err = OK THEN Requested("enable") ELSE request
        /\ UNCHANGED <<guardianMultisig, sourceHash, disabled, disableTimelock,
                       hoursTarget, kgTarget, tranche, periods, operatorAllowlist,
                       stableBalance, now, attested, paidOut>>

finalizeEnableErr(caller) ==
    IF ~onlyGuardian(caller) THEN NotGuardian
    ELSE IF ~(disableRequestedAt > 0) THEN EnableNotRequested
    ELSE timelockErr

\* mutant: the request is consumed but the system stays disabled
FinalizeEnableKeepsFlag(caller) ==
    LET err == finalizeEnableErr(caller)
    IN  /\ disableRequestedAt' = IF err = OK THEN 0 ELSE disableRequestedAt
        /\ request' = IF err = OK THEN NoRequest ELSE request
        /\ UNCHANGED <<guardianMultisig, sourceHash, disabled, disableTimelock,
                       hoursTarget, kgTarget, tranche, periods, operatorAllowlist,
                       stableBalance, now, attested, paidOut>>

FinalizeEnable(caller) ==
    LET err == finalizeEnableErr(caller)
    IN  /\ disabled' = IF err = OK THEN FALSE ELSE disabled
        /\ disableRequestedAt' = IF err = OK THEN 0 ELSE disableRequestedAt
        /\ request' = IF err = OK THEN NoRequest ELSE request
        /\ UNCHANGED <<guardianMultisig, sourceHash, disableTimelock,
                       hoursTarget, kgTarget, tranche, periods, operatorAllowlist,
                       stableBalance, now, attested, paidOut>>

(***************************************************************************)
(* updateGuardianMultisig(newGuardian): guardian only, immediate           *)
(***************************************************************************)
\* mutant: the replacement address is not looked at
updateGuardianMultisigErrAnyAddr(caller, newGuardian) ==
    IF ~onlyGuardian(caller) THEN NotGuardian ELSE OK

updateGuardianMultisigErr(caller, newGuardian) ==
    IF ~onlyGuardian(caller) THEN NotGuardian
    ELSE IF ~(newGuardian # NullAddr) THEN ZeroAddr
    ELSE OK

\* mutant: the call is accepted but the guardian stays
UpdateGuardianMultisigIgnored(caller, newGuardian) ==
    UNCHANGED vars

\* mutant: handing the role over cancels the pending request
UpdateGuardianMultisigCancels(caller, newGuardian) ==
    LET err == updateGuardianMultisigErr(caller, newGuardian)
    IN  /\ guardianMultisig' = IF err = OK THEN newGuardian ELSE guardianMultisig
        /\ disableRequestedAt' = IF err = OK THEN 0 ELSE disableRequestedAt
        /\ request' = IF err = OK THEN NoRequest ELSE request
        /\ UNCHANGED <<sourceHash, disabled, disableTimelock,
                       hoursTarget, kgTarget, tranche, periods, operatorAllowlist,
                       stableBalance, now, attested, paidOut>>

UpdateGuardianMultisig(caller, newGuardian) ==
    LET err == updateGuardianMultisigErr(caller, newGuardian)
    IN  /\ guardianMultisig' = IF err = OK THEN newGuardian ELSE guardianMultisig
        /\ UNCHANGED <<sourceHash, disabled, disableRequestedAt, disableTimelock,
                       hoursTarget, kgTarget, tranche, periods, operatorAllowlist,
                       stableBalance, now, history>>

(***************************************************************************)
(* guardianRecover(to, amount): guardian only, moves tokens out            *)
(***************************************************************************)
guardianRecoverErr(caller, to, amount, ok) ==
    IF ~onlyGuardian(caller) THEN NotGuardian
    ELSE IF ~(to # NullAddr) THEN ZeroAddr
    ELSE IF ~transferOk(amount, ok) THEN TransferFailed
    ELSE OK

GuardianRecover(caller, to, amount, ok) ==
    /\ stableBalance' = IF guardianRecoverErr(caller, to, amount, ok) = OK
                        THEN stableBalance - amount
                        ELSE stableBalance
    /\ UNCHANGED <<storage, now, history>>

(***************************************************************************)
(* The event log.  The contract never reads it, so it is modelled by the   *)
(* records each call appends: the emit is the last statement of a function *)
(* and a reverted call leaves no record.  guardianRecover has no emit.     *)
(* The metaHash of Attest is passed through unread and is left out.        *)
(***************************************************************************)
emits(err, record) == rollback(err, <<record>>, <<>>)

depositLog(caller, amount, ok) ==
    emits(depositErr(amount, ok),
          [event |-> "Deposit", from |-> caller, amount |-> amount])
setOperatorLog(caller, op, ok) ==
    emits(setOperatorErr(caller), [event |-> "OperatorSet", op |-> op, ok |-> ok])
setSourceHashLog(caller, newHash) ==
    emits(setSourceHashErr(caller),
          [event |-> "SourceHashSet", newHash |-> newHash, setter |-> caller])
attestLog(caller, periodId, kind, value) ==
    emits(attestErr(caller, periodId, kind, value),
          [event |-> "Attest", periodId |-> periodId, kind |-> kind,
           value |-> value, attestor |-> caller])
\* the record of a re-entrant disburse that paid is emitted during the transfer
disburseLog(periodId, to, ok, re) ==
    rollback(disburseErr(periodId, to, ok),
             (IF reentryPays(periodId, re)
              THEN <<[event |-> "Disburse", periodId |-> re.key, to |-> re.to,
                      amount |-> tranche]>>
              ELSE <<>>)
             \o <<[event |-> "Disburse", periodId |-> periodId, to |-> to,
                   amount |-> tranche]>>,
             <<>>)
requestDisableLog(caller) ==
    emits(requestDisableErr(caller),
          [event |-> "DisableRequested", by |-> caller, when |-> now])
finalizeDisableLog(caller) ==
    emits(finalizeDisableErr(caller), [event |-> "Disabled", by |-> caller, when |-> now])
requestEnableLog(caller) ==
    emits(requestEnableErr(caller),
          [event |-> "EnableRequested", by |-> caller, when |-> now])
finalizeEnableLog(caller) ==
    emits(finalizeEnableErr(caller), [event |-> "Enabled", by |-> caller, when |-> now])
updateGuardianMultisigLog(caller, newGuardian) ==
    emits(updateGuardianMultisigErr(caller, newGuardian),
          [event |-> "GuardianMultisigUpdated", oldAddr |-> guardianMultisig,
           newAddr |-> newGuardian])
guardianRecoverLog(caller, to, amount, ok) == <<>>

(***************************************************************************)
(* The next block: block.timestamp grows                                   *)
(***************************************************************************)
Tick(maxTime) ==
    /\ now < maxTime
    /\ now' = now + 1
    /\ UNCHANGED <<storage, stableBalance, history>>

(***************************************************************************)
(* Any call by any caller with any arguments, or the next block.  The      *)
(* arguments are drawn from the given sets.                                *)
(***************************************************************************)
NextIn(addrs, keys, kinds, values, hashes, maxTime) ==
    \/ \E c \in Callers, amount \in Amounts, ok \in BOOLEAN : Deposit(c, amount, ok)
    \/ \E c \in Callers, op \in addrs, ok \in BOOLEAN : SetOperator(c, op, ok)
    \/ \E c \in Callers, h \in hashes : SetSourceHash(c, h)
    \/ \E c \in Callers, k \in keys, kind \in kinds, v \in values :
          Attest(c, k, kind, v)
    \/ \E c \in Callers, k \in keys, to \in addrs, ok \in BOOLEAN :
          \E re \in Reentries(keys, {to}) : Disburse(c, k, to, ok, re)
    \/ \E c \in Callers : RequestDisable(c)
    \/ \E c \in Callers : FinalizeDisable(c)
    \/ \E c \in Callers : RequestEnable(c)
    \/ \E c \in Callers : FinalizeEnable(c)
    \/ \E c \in Callers, g \in Addr : UpdateGuardianMultisig(c, g)
    \/ \E c \in Callers, to \in addrs, amount \in Amounts, ok \in BOOLEAN :
          GuardianRecover(c, to, amount, ok)
    \/ \E k \in keys : ViewCall(k)
    \/ Tick(maxTime)

\* the period ledger and the disbursement gate, with a short clock
InitLedger == Init /\ disableTimelock = 1
NextLedger == NextIn({2}, PeriodKeys, Kinds, {0, 3}, {0}, 2)
SpecLedger == InitLedger /\ [][NextLedger]_vars

\* the governance timelock, with one period and one attestation per kind
InitGov == Init /\ disableTimelock \in TimelockChoices
NextGov == NextIn({2}, {1}, {1, 2}, {6}, {1}, MaxTime)
Spec == InitGov /\ [][NextGov]_vars

\* every call with every outcome on one period: all kinds and the zero value,
\* the other key never attested
NextRejects == NextIn({2}, {1}, Kinds, {0, 3}, {0}, 2)
SpecRejects == InitLedger /\ [][NextRejects]_vars

\* hand-over of the guardian role: only the first guardian, 1, issues
\* requests, the role goes to 2, and either may try to finalize
NextHandover ==
    \/ RequestDisable(1)
    \/ RequestEnable(1)
    \/ \E c \in Callers : FinalizeDisable(c)
    \/ \E c \in Callers : FinalizeEnable(c)
    \/ \E c \in Callers : UpdateGuardianMultisig(c, 2)
    \/ \E c \in Callers, amount \in Amounts : Deposit(c, amount, TRUE)
    \/ Tick(MaxTime)
SpecHandover == InitGov /\ [][NextHandover]_vars

(***************************************************************************)
(* The governance machine driven by a guardian who follows the protocol:   *)
(* with nothing pending the guardian issues the request that matches the   *)
(* state of the system, a pending request is not replaced, and the finalize *)
(* of the same kind is called until it succeeds.  The clock runs while a    *)
(* request waits.  The role may be handed over and anyone may deposit.      *)
(* Requests are issued while their timelock ends within the modelled clock. *)
(***************************************************************************)
GuardianRequests ==
    /\ disableRequestedAt = 0
    /\ now + disableTimelock <= MaxTime
    /\ IF disabled THEN RequestEnable(guardianMultisig)
                   ELSE RequestDisable(guardianMultisig)

GuardianFinalizes ==
    /\ disableRequestedAt > 0
    /\ IF disabled THEN FinalizeEnable(guardianMultisig)
                   ELSE FinalizeDisable(guardianMultisig)

TickWhilePending == disableRequestedAt > 0 /\ Tick(MaxTime)

NextLive ==
    \/ GuardianRequests
    \/ GuardianFinalizes
    \/ TickWhilePending
    \/ \E n \in Callers : UpdateGuardianMultisig(guardianMultisig, n)
    \/ \E c \in Callers, amount \in Amounts : Deposit(c, amount, TRUE)

SpecLive ==
    /\ InitGov /\ [][NextLive]_vars
    /\ WF_vars(TickWhilePending)
    /\ WF_vars(GuardianRequests)
    /\ WF_vars(GuardianFinalizes)

(***************************************************************************)
(* Period ledger and disbursement gate (checked under SpecLedger)          *)
(***************************************************************************)
DisburseStepFor(k) ==
    \E c \in Callers, periodId \in PeriodKeys, to \in Addr, ok \in BOOLEAN :
        \E re \in Reentries(PeriodKeys, {to}) :
            /\ Disburse(c, periodId, to, ok, re)
            /\ disburseErr(periodId, to, ok) = OK
            /\ tranchesFor(k, periodId, re) = 1

\* C1: paid is false until a disburse that pays the key succeeds, becomes true
\* in that step and is never reset; the tranche of a key is transferred at most once.
C1_PaidExactlyOnce ==
    [][\A k \in PeriodKeys :
          /\ periods[k].paid => periods'[k].paid
          /\ (~periods[k].paid /\ periods'[k].paid) => DisburseStepFor(k)
          /\ paidOut'[k] > paidOut[k] => ~periods[k].paid /\ periods'[k].paid
          /\ paidOut'[k] <= 1
          /\ periods'[k].paid <=> paidOut'[k] = 1]_vars

\* a key was paid while thresholds for both keys were met: one paid, one still payable
C1_Witness ==
    \E k \in PeriodKeys, j \in PeriodKeys :
        /\ k # j
        /\ periods[k].paid /\ paidOut[k] = 1
        /\ ~periods[j].paid /\ meetsTargets(periods[j])

\* C2 (as amended): once a tranche was paid for a key, every later disburse
\* for that key fails, whatever the target and however far the accumulators
\* have grown; the failure is AlreadyPaid whenever the system is not disabled
\* and the target is on the allowlist (those two checks come first).
C2_AlreadyPaidAfterPayout ==
    \A k \in PeriodKeys, to \in Addr, ok \in BOOLEAN :
        paidOut[k] >= 1 =>
            /\ disburseErr(k, to, ok) # OK
            /\ (notDisabled /\ operatorAllowlist[to]) => disburseErr(k, to, ok) = AlreadyPaid

\* C2 as stated: the failure is AlreadyPaid for any target operator
C2_Original ==
    \A k \in PeriodKeys, to \in Addr, ok \in BOOLEAN :
        paidOut[k] >= 1 => disburseErr(k, to, ok) = AlreadyPaid

\* a paid key, pushed past its kg threshold, funds at hand, disburse answers AlreadyPaid
C2_Witness ==
    \E k \in PeriodKeys :
        /\ paidOut[k] = 1
        /\ periods[k].kgDelivered > kgTarget
        /\ notDisabled /\ operatorAllowlist[2] /\ stableBalance >= tranche
        /\ disburseErr(k, 2, TRUE) = AlreadyPaid

\* C3 (as amended): disburse for a period below either threshold always fails,
\* with TargetsNotMet whenever the system is not disabled and the target is on
\* the allowlist; a period is payable, and is paid, only when the values
\* attested for both kinds have reached their thresholds.
C3_NoPayoutBelowTargets ==
    \A k \in PeriodKeys :
        /\ \A to \in Addr, ok \in BOOLEAN :
              (periods[k].corridorHours < hoursTarget \/ periods[k].kgDelivered < kgTarget) =>
                  /\ disburseErr(k, to, ok) # OK
                  /\ (notDisabled /\ operatorAllowlist[to]) =>
                         disburseErr(k, to, ok) = TargetsNotMet
        /\ (periodMeetsTargets(k) \/ paidOut[k] >= 1) =>
              attested[k][1] >= hoursTarget /\ attested[k][2] >= kgTarget

\* C3 as stated: the failure is TargetsNotMet whenever a threshold is not reached
C3_Original ==
    \A k \in PeriodKeys, to \in Addr, ok \in BOOLEAN :
        (periods[k].corridorHours < hoursTarget \/ periods[k].kgDelivered < kgTarget) =>
            disburseErr(k, to, ok) = TargetsNotMet

\* hours attested first and complete, kg still missing: disburse answers TargetsNotMet
C3_Witness ==
    \E k \in PeriodKeys :
        /\ periods[k].corridorHours >= hoursTarget /\ periods[k].kgDelivered < kgTarget
        /\ notDisabled /\ operatorAllowlist[2] /\ stableBalance >= tranche
        /\ disburseErr(k, 2, TRUE) = TargetsNotMet

\* C4: each accumulator equals the sum of the values of the attestations
\* applied to it, and no step decreases an accumulator.
C4_AccumulatorsAreSums ==
    [][\A k \in PeriodKeys :
          /\ periods'[k].corridorHours = attested'[k][1]
          /\ periods'[k].kgDelivered = attested'[k][2]
          /\ periods'[k].corridorHours >= periods[k].corridorHours
          /\ periods'[k].kgDelivered >= periods[k].kgDelivered]_vars

\* two attestations of hours and one of kg were applied to a key
C4_Witness ==
    \E k \in PeriodKeys :
        /\ attested[k][1] = 6 /\ periods[k].corridorHours = 6
        /\ attested[k][2] = 3 /\ periods[k].kgDelivered = 3

C6_AtBoundary ==
    \A c \in Callers :
        (onlyGuardian(c) /\ request.kind = "disable") =>
            /\ now = request.at + disableTimelock - 1 =>
                   finalizeDisableErr(c) = TimelockNotElapsed
            /\ now = request.at + disableTimelock => finalizeDisableErr(c) = OK

\* C6: counted from a requestDisable, finalizeDisable one time unit before
\* the timelock fails, and finalizeDisable exactly at the timelock succeeds
\* and sets disabled.
C6_BoundaryScenario ==
    [][/\ C6_AtBoundary'
       /\ \A c \in Callers :
             (/\ onlyGuardian(c) /\ request.kind = "disable"
              /\ now = request.at + disableTimelock
              /\ FinalizeDisable(c)) => disabled' /\ disableRequestedAt' = 0]_vars

\* disabled by a finalize made exactly disableTimelock > 0 after the request:
\* that request was made at time 1 and nothing can be pending since
C6_Witness ==
    /\ disabled /\ request = NoRequest /\ disableRequestedAt = 0
    /\ disableTimelock > 0 /\ now = 1 + disableTimelock

\* C7: a requestDisable made while a request was pending restarts the wait:
\* at a time when the replaced request would have matured but the new one
\* has not, finalizeDisable fails with TimelockNotElapsed.
C7_RerequestRestartsWait ==
    \A c \in Callers :
        (/\ onlyGuardian(c) /\ request.kind = "disable"
         /\ request.overwrote > 0 /\ request.overwrote < request.at
         /\ request.overwrote + disableTimelock <= now
         /\ now < request.at + disableTimelock) =>
            finalizeDisableErr(c) = TimelockNotElapsed

\* the first request has matured, the second has not, and finalizeDisable is refused
C7_Witness ==
    /\ request.kind = "disable"
    /\ request.overwrote > 0 /\ request.overwrote < request.at
    /\ request.overwrote + disableTimelock <= now
    /\ now < request.at + disableTimelock
    /\ finalizeDisableErr(guardianMultisig) = TimelockNotElapsed

\* C8: finalizeDisable succeeds only on a pending requestDisable of an enabled
\* system, finalizeEnable only on a pending requestEnable of a disabled one.
C8_FinalizeMatchesRequest ==
    [][\A c \in Callers :
          /\ (FinalizeDisable(c) /\ finalizeDisableErr(c) = OK) =>
                 request.kind = "disable" /\ ~disabled
          /\ (FinalizeEnable(c) /\ finalizeEnableErr(c) = OK) =>
                 request.kind = "enable" /\ disabled]_vars

\* C9: requestDisable is accepted only while the system is enabled and
\* requestEnable only while it is disabled; from the other side the request
\* is rejected and the pending timestamp stays as it was.
C9_RequestOnlyFromOwnSide ==
    [][\A c \in Callers :
          /\ (RequestDisable(c) /\ disabled) =>
                 requestDisableErr(c) # OK /\ disableRequestedAt' = disableRequestedAt
          /\ (RequestEnable(c) /\ ~disabled) =>
                 requestEnableErr(c) # OK /\ disableRequestedAt' = disableRequestedAt]_vars

\* C10: disabled changes only in a successful finalizeDisable or
\* finalizeEnable, and then at least disableTimelock after the latest request.
C10_DisabledFlipsOnlyInFinalize ==
    [][disabled' # disabled =>
          /\ \E c \in Callers :
                \/ FinalizeDisable(c) /\ finalizeDisableErr(c) = OK
                \/ FinalizeEnable(c) /\ finalizeEnableErr(c) = OK
          /\ request.kind # "none"
          /\ now >= request.at + disableTimelock]_vars

\* the flag was set under a timelock that is not zero, by a rotated guardian
\* or its predecessor, in a run that also attested, funded and paid a period
C10_Witness ==
    /\ disabled /\ disableTimelock > 0 /\ guardianMultisig = 2
    /\ \E k \in PeriodKeys : periods[k].paid

(***************************************************************************)
(* Suspension, payability and the transfer (C11-C14)                       *)
(***************************************************************************)
\* C11: once finalizeDisable has succeeded, every attest and every disburse
\* fails with SystemSuspended and no period changes, and this lasts until a
\* finalizeEnable succeeds on a requestEnable that has waited its timelock.
C11_SuspendedUntilEnableCompletes ==
    [][/\ \A c \in Callers :
             (FinalizeDisable(c) /\ finalizeDisableErr(c) = OK) => disabled'
       /\ disabled =>
             /\ \A c \in Callers, k \in PeriodKeys, kind \in Kinds, v \in 0..UintMax :
                    attestErr(c, k, kind, v) = SystemSuspended
             /\ \A k \in PeriodKeys, to \in Addr, ok \in BOOLEAN :
                    disburseErr(k, to, ok) = SystemSuspended
             /\ periods' = periods
       /\ (disabled /\ ~disabled') =>
             /\ \E c \in Callers : FinalizeEnable(c) /\ finalizeEnableErr(c) = OK
             /\ request.kind = "enable"
             /\ now >= request.at + disableTimelock]_vars

\* C12: the payable view is true exactly when the period is unpaid, both
\* accumulators have reached their thresholds and the system is not disabled;
\* a disburse to an allowed operator whose transfer succeeds succeeds exactly
\* when the view is true.
C12_PayableViewDecidesDisburse ==
    \A k \in PeriodKeys :
        /\ periodMeetsTargets(k) <=>
               /\ ~periods[k].paid
               /\ periods[k].corridorHours >= hoursTarget
               /\ periods[k].kgDelivered >= kgTarget
               /\ ~disabled
        /\ \A to \in Addr, ok \in BOOLEAN :
               (operatorAllowlist[to] /\ transferOk(tranche, ok)) =>
                   (disburseErr(k, to, ok) = OK <=> periodMeetsTargets(k))

\* allowed operator, funded escrow: one key is payable and its disburse would
\* succeed, the other has met both thresholds but was paid and is refused
C12_Witness ==
    \E k \in PeriodKeys, j \in PeriodKeys, to \in Addr :
        /\ operatorAllowlist[to] /\ transferOk(tranche, TRUE)
        /\ periodMeetsTargets(k) /\ disburseErr(k, to, TRUE) = OK
        /\ meetsTargets(periods[j]) /\ periods[j].paid
        /\ ~periodMeetsTargets(j) /\ disburseErr(j, to, TRUE) = AlreadyPaid

\* C13 (as amended): when the requires of disburse pass and the transfer
\* fails, the call fails with TransferFailed and is undone as a whole: the
\* paid flag it had set is rolled back with it, so the period is still unpaid
\* and is paid by a later call whose transfer succeeds; paid is never left set
\* by a step that moved no tranche.
C13_FailedTransferRollsBack ==
    [][/\ \A k \in PeriodKeys, to \in Addr, ok \in BOOLEAN :
             (disburseRequires(periods, k, to) = OK /\ ~transferOk(tranche, ok)) =>
                 /\ disburseErr(k, to, ok) = TransferFailed
                 /\ disburseWrites(k, to, NoReentry)[k].paid
                 /\ ~rollback(disburseErr(k, to, ok),
                              disburseWrites(k, to, NoReentry), periods)[k].paid
                 /\ transferOk(tranche, TRUE) => disburseErr(k, to, TRUE) = OK
       /\ \A k \in PeriodKeys :
             (~periods[k].paid /\ periods'[k].paid) =>
                 /\ paidOut'[k] = paidOut[k] + 1
                 /\ stableBalance' < stableBalance]_vars

\* C13 as stated: after the failed transfer the period is left consumed
C13_Original ==
    \A k \in PeriodKeys, to \in Addr, ok \in BOOLEAN :
        (disburseRequires(periods, k, to) = OK /\ ~transferOk(tranche, ok)) =>
            /\ disburseErr(k, to, ok) = TransferFailed
            /\ rollback(disburseErr(k, to, ok),
                        disburseWrites(k, to, NoReentry), periods)[k].paid

\* a payable period and an allowed operator, with a funded escrow whose token
\* refuses the transfer: the call fails, the period stays unpaid and payable
C13_Witness ==
    \E k \in PeriodKeys, to \in Addr :
        /\ stableBalance >= tranche
        /\ disburseErr(k, to, FALSE) = TransferFailed
        /\ ~periods[k].paid /\ periodMeetsTargets(k)
        /\ disburseErr(k, to, TRUE) = OK

\* the calls back into disburse for the key being paid, from inside the
\* transfer of a disburse(k, to) whose requires have passed
SameKeyReentries(k) == {re \in Reentries(PeriodKeys, Addr) : re.key = k}

\* C14 (as amended): a disburse for the same key re-entered from inside the
\* transfer fails: with AlreadyPaid when it names an allowed target, with
\* OperatorNotAllowed otherwise; so no step moves two tranches for one key
\* and no key ever has more than one tranche paid.
C14_ReentrySameKeyRefused ==
    [][/\ \A k \in PeriodKeys, to \in Addr :
             disburseRequires(periods, k, to) = OK =>
                 \A re \in SameKeyReentries(k) :
                     /\ reentryErr(k, re) =
                            (IF operatorAllowlist[re.to] THEN AlreadyPaid
                                                        ELSE OperatorNotAllowed)
                     /\ ~reentryPays(k, re)
                     /\ tranchesFor(k, k, re) = 1
       /\ \A k \in PeriodKeys :
             /\ paidOut'[k] <= paidOut[k] + 1
             /\ paidOut'[k] <= 1]_vars

\* C14 as stated: the re-entered call fails with AlreadyPaid
C14_Original ==
    \A k \in PeriodKeys, to \in Addr :
        disburseRequires(periods, k, to) = OK =>
            \A re \in SameKeyReentries(k) : reentryErr(k, re) = AlreadyPaid

\* a payable key, an allowed operator and two tranches in the escrow, so the
\* re-entered transfer could be paid: the re-entry is refused with AlreadyPaid
C14_Witness ==
    \E k \in PeriodKeys, to \in Addr :
        /\ disburseErr(k, to, TRUE) = OK
        /\ stableBalance >= 2 * tranche
        /\ reentryErr(k, [key |-> k, to |-> to]) = AlreadyPaid

(***************************************************************************)
(* Who can move funds and change outcomes (C15-C17)                        *)
(***************************************************************************)
\* C15: the escrow's stablecoin balance goes down only in a successful
\* disburse for a period whose two accumulators have reached their thresholds.
C15_FundsLeaveOnlyByDisburse ==
    [][stableBalance' < stableBalance =>
          \E k \in PeriodKeys :
              /\ DisburseStepFor(k)
              /\ meetsTargets(periods[k])
              /\ paidOut'[k] = paidOut[k] + 1]_vars

\* a successful call by the guardian of a guardian-only function other than
\* the two finalizes (which complete a sequence begun by an earlier request)
GuardianActsAtOnce ==
    LET g == guardianMultisig
    IN  \/ \E op \in Addr, ok \in BOOLEAN : SetOperator(g, op, ok)
        \/ \E h \in Hashes : SetSourceHash(g, h)
        \/ RequestDisable(g)
        \/ RequestEnable(g)
        \/ \E n \in Addr : UpdateGuardianMultisig(g, n)
        \/ \E to \in Addr, a \in Amounts, ok \in BOOLEAN : GuardianRecover(g, to, a, ok)

\* C16: under a timelock that is not zero, a guardian-only operation that
\* takes no time changes the outcome of no disburse: a call that would have
\* succeeded before it still succeeds after it, and one that would have
\* failed still fails.
C16_GuardianCannotFlipDisburseAtOnce ==
    [][(disableTimelock > 0 /\ now' = now /\ GuardianActsAtOnce) =>
          \A k \in PeriodKeys, to \in Addr :
              (disburseErr(k, to, TRUE) = OK) <=> (disburseErr(k, to, TRUE) = OK)']_vars

\* C17: setOperator, setSourceHash, requestDisable, finalizeDisable,
\* requestEnable, finalizeEnable and updateGuardianMultisig are refused with
\* NotGuardian to every caller other than the current guardian, and no step
\* taken at such a call changes the guardian, the disabled flag, the pending
\* request, the allowlist or the source hash.
C17_GuardianOnlyFunctions ==
    [][\A c \in Callers :
          c # guardianMultisig =>
              /\ setOperatorErr(c) = NotGuardian
              /\ setSourceHashErr(c) = NotGuardian
              /\ requestDisableErr(c) = NotGuardian
              /\ finalizeDisableErr(c) = NotGuardian
              /\ requestEnableErr(c) = NotGuardian
              /\ finalizeEnableErr(c) = NotGuardian
              /\ \A n \in Addr : updateGuardianMultisigErr(c, n) = NotGuardian
              /\ UNCHANGED <<guardianMultisig, disabled, disableRequestedAt,
                             request, operatorAllowlist, sourceHash>>
                 \/ ~(\/ \E op \in Addr, ok \in BOOLEAN : SetOperator(c, op, ok)
                      \/ \E h \in Hashes : SetSourceHash(c, h)
                      \/ RequestDisable(c) \/ FinalizeDisable(c)
                      \/ RequestEnable(c) \/ FinalizeEnable(c)
                      \/ \E n \in Addr : UpdateGuardianMultisig(c, n))]_vars

\* the guardian role was handed from 1 to 2, who published a source hash,
\* allowed an operator and has a request pending whose timelock has elapsed:
\* the former guardian is now refused by all seven functions
C17_Witness ==
    /\ guardianMultisig = 2 /\ sourceHash = 1 /\ operatorAllowlist[2]
    /\ disableRequestedAt > 0 /\ finalizeDisableErr(2) = OK
    /\ finalizeDisableErr(1) = NotGuardian /\ setOperatorErr(1) = NotGuardian

(***************************************************************************)
(* Rejected calls (checked under SpecRejects) and attestations (C18-C20)    *)
(***************************************************************************)
\* the call A, made in the current state, cannot change any variable
NoEffect(A) == ~ENABLED (A /\ vars' # vars)

\* C18: a rejected call has no partial effect: it changes no variable and
\* appends no record to the log; an attest with an unknown kind on a key
\* never seen writes createdAt and is undone with it, so the period is not
\* created, and a period exists only if an attestation for it succeeded.
C18_RejectedCallsChangeNothing ==
    /\ \A c \in Callers, amount \in Amounts, ok \in BOOLEAN :
          depositErr(amount, ok) # OK =>
              NoEffect(Deposit(c, amount, ok)) /\ depositLog(c, amount, ok) = <<>>
    /\ \A c \in Callers, op \in Addr, ok \in BOOLEAN :
          setOperatorErr(c) # OK =>
              NoEffect(SetOperator(c, op, ok)) /\ setOperatorLog(c, op, ok) = <<>>
    /\ \A c \in Callers, h \in Hashes :
          setSourceHashErr(c) # OK =>
              NoEffect(SetSourceHash(c, h)) /\ setSourceHashLog(c, h) = <<>>
    /\ \A c \in Callers, k \in PeriodKeys, kind \in Kinds, v \in 0..UintMax :
          attestErr(c, k, kind, v) # OK =>
              NoEffect(Attest(c, k, kind, v)) /\ attestLog(c, k, kind, v) = <<>>
    /\ \A c \in Callers, k \in PeriodKeys, to \in Addr, ok \in BOOLEAN :
          \A re \in Reentries(PeriodKeys, Addr) :
              disburseErr(k, to, ok) # OK =>
                  NoEffect(Disburse(c, k, to, ok, re)) /\ disburseLog(k, to, ok, re) = <<>>
    /\ \A c \in Callers :
          /\ requestDisableErr(c) # OK =>
                 NoEffect(RequestDisable(c)) /\ requestDisableLog(c) = <<>>
          /\ finalizeDisableErr(c) # OK =>
                 NoEffect(FinalizeDisable(c)) /\ finalizeDisableLog(c) = <<>>
          /\ requestEnableErr(c) # OK =>
                 NoEffect(RequestEnable(c)) /\ requestEnableLog(c) = <<>>
          /\ finalizeEnableErr(c) # OK =>
                 NoEffect(FinalizeEnable(c)) /\ finalizeEnableLog(c) = <<>>
    /\ \A c \in Callers, n \in Addr :
          updateGuardianMultisigErr(c, n) # OK =>
              NoEffect(UpdateGuardianMultisig(c, n))
              /\ updateGuardianMultisigLog(c, n) = <<>>
    /\ \A c \in Callers, to \in Addr, amount \in Amounts, ok \in BOOLEAN :
          guardianRecoverErr(c, to, amount, ok) # OK =>
              NoEffect(GuardianRecover(c, to, amount, ok))
    /\ \A c \in Callers, k \in PeriodKeys, kind \in Kinds, v \in 0..UintMax :
          (attestErr(c, k, kind, v) = UnknownKind /\ periods[k].createdAt = 0) =>
              /\ attestWrites(c, k, kind, v)[k].createdAt = now
              /\ rollback(attestErr(c, k, kind, v),
                          attestWrites(c, k, kind, v), periods)[k] = ZeroPeriod
    /\ \A k \in PeriodKeys :
          periods[k] # ZeroPeriod => attested[k][1] + attested[k][2] > 0

\* one key was attested and paid, the other was never seen; an attestation
\* of unknown kind for the unseen key is refused, as are an attestation that
\* would overflow the paid key's accumulator and a second disburse for it
C18_Witness ==
    \E k \in PeriodKeys, j \in PeriodKeys :
        /\ periods[k].paid /\ periods[j] = ZeroPeriod
        /\ attestErr(2, j, 3, 3) = UnknownKind
        /\ attestErr(2, k, 1, 3) = Panic
        /\ disburseErr(k, 2, TRUE) = AlreadyPaid

\* the rejection reasons whose condition is violated by an attest call
AttestViolations(caller, kind, value) ==
    (IF disabled THEN {SystemSuspended} ELSE {})
    \cup (IF ~isAttestor(caller) THEN {NotAttestor} ELSE {})
    \cup (IF value = 0 THEN {ZeroValue} ELSE {})
    \cup (IF kind \notin {1, 2} THEN {UnknownKind} ELSE {})

\* the accumulator an attestation of the given kind adds to
Selected(p, kind) == IF kind = 1 THEN p.corridorHours ELSE p.kgDelivered

\* C19 (as amended): attest succeeds exactly when the caller is an attestor,
\* the system is not disabled, the value is positive, the kind is hours or kg
\* and the selected accumulator plus the value fits the unsigned range; it is
\* rejected with the reason of a violated condition (with the arithmetic
\* panic when only the range is exceeded); a successful call adds the value
\* to the selected accumulator and leaves the other one as it was.
C19_AttestOutcome ==
    \A c \in Callers, k \in PeriodKeys, kind \in Kinds, v \in 0..UintMax :
        LET err == attestErr(c, k, kind, v)
            bad == AttestViolations(c, kind, v)
            after == rollback(err, attestWrites(c, k, kind, v), periods)
        IN  /\ err = OK <=>
                   (bad = {} /\ Selected(periods[k], kind) + v <= UintMax)
            /\ (err # OK /\ bad # {}) => err \in bad
            /\ (err # OK /\ bad = {}) => err = Panic
            /\ err = OK =>
                   /\ after[k].corridorHours =
                          periods[k].corridorHours + (IF kind = 1 THEN v ELSE 0)
                   /\ after[k].kgDelivered =
                          periods[k].kgDelivered + (IF kind = 2 THEN v ELSE 0)
                   /\ after[k].paid = periods[k].paid
                   /\ \A j \in PeriodKeys \ {k} : after[j] = periods[j]

\* C19 as stated: attest succeeds whenever the four conditions hold
C19_Original ==
    \A c \in Callers, k \in PeriodKeys, kind \in Kinds, v \in 0..UintMax :
        attestErr(c, k, kind, v) = OK <=> AttestViolations(c, kind, v) = {}

\* hours were attested twice and kg once for a key: one more attestation of
\* hours no longer fits, while kg is accepted and the zero value is not
C19_Witness ==
    \E k \in PeriodKeys :
        /\ attested[k][1] = 6 /\ attested[k][2] = 3
        /\ periods[k].corridorHours = 6 /\ periods[k].kgDelivered = 3
        /\ attestErr(2, k, 1, 3) = Panic
        /\ attestErr(2, k, 2, 3) = OK
        /\ attestErr(2, k, 2, 0) = ZeroValue
        /\ attestErr(1, k, 2, 3) = NotAttestor

\* C20: createdAt of a period is set once, by the first attestation that
\* succeeds for its key, to the time of that call; it is not set by anything
\* else and never changes afterwards.
C20_CreatedAtSetOnce ==
    [][\A k \in PeriodKeys :
          LET first == attested[k][1] + attested[k][2] = 0
                       /\ attested'[k][1] + attested'[k][2] > 0
          IN  /\ periods[k].createdAt # 0 =>
                     periods'[k].createdAt = periods[k].createdAt
              /\ periods[k].createdAt = 0 =>
                     periods'[k].createdAt = (IF first THEN now ELSE 0)
              /\ first =>
                     \E c \in Attestors, kind \in {1, 2}, v \in 1..UintMax :
                         attestErr(c, k, kind, v) = OK /\ Attest(c, k, kind, v)
              /\ (periods'[k].createdAt # 0) <=>
                     (attested'[k][1] + attested'[k][2] > 0)]_vars

\* two periods first attested in different blocks; the earlier one, attested
\* four times in all, still carries the time of its first attestation
C20_Witness ==
    \E k \in PeriodKeys, j \in PeriodKeys :
        /\ now = 2
        /\ periods[k].createdAt = 1 /\ periods[j].createdAt = 2
        /\ attested[k][1] = 6 /\ attested[k][2] = 6

(***************************************************************************)
(* Governance: requests, rotation and the allowlist (C21-C23)              *)
(***************************************************************************)
\* C21: a successful finalize clears the pending request, and with no request
\* pending every finalize by the guardian fails with the not-requested error
\* (by anyone else with NotGuardian), so a finalize is not replayed; there is
\* one pending timestamp, that of the latest request since the last
\* finalize, and a new request replaces the one it finds.
C21_FinalizeClearsRequest ==
    [][/\ <<disabled, disableRequestedAt, request>>' # <<disabled, disableRequestedAt, request>> =>
             \A c \in Callers :
                 /\ (\/ FinalizeDisable(c) /\ finalizeDisableErr(c) = OK
                     \/ FinalizeEnable(c) /\ finalizeEnableErr(c) = OK) =>
                        /\ disableRequestedAt' = 0 /\ request' = NoRequest
                        /\ \A d \in Callers :
                               /\ (finalizeDisableErr(d) # OK)'
                               /\ (finalizeEnableErr(d) # OK)'
                 /\ (\/ RequestDisable(c) /\ requestDisableErr(c) = OK
                     \/ RequestEnable(c) /\ requestEnableErr(c) = OK) =>
                        /\ disableRequestedAt' = now
                        /\ request'.overwrote = disableRequestedAt
       /\ disableRequestedAt = 0 =>
             \A c \in Callers :
                 /\ finalizeDisableErr(c) =
                        (IF onlyGuardian(c) THEN DisableNotRequested ELSE NotGuardian)
                 /\ finalizeEnableErr(c) =
                        (IF onlyGuardian(c) THEN EnableNotRequested ELSE NotGuardian)
       /\ disableRequestedAt = request.at
       /\ (request.kind = "none") <=> (disableRequestedAt = 0)]_vars

\* the system was disabled by a finalize under a timelock that is not zero:
\* nothing is pending and the guardian's replay of either finalize is refused
C21_Witness ==
    /\ disabled /\ disableTimelock > 0 /\ disableRequestedAt = 0
    /\ finalizeDisableErr(guardianMultisig) = DisableNotRequested
    /\ finalizeEnableErr(guardianMultisig) = EnableNotRequested

\* the outcomes of the guardian-only functions for a caller, over all arguments
GuardianOnlyOutcomes(c) ==
    {setOperatorErr(c), setSourceHashErr(c), requestDisableErr(c),
     finalizeDisableErr(c), requestEnableErr(c), finalizeEnableErr(c)}
    \cup {updateGuardianMultisigErr(c, n) : n \in Addr}
    \cup {guardianRecoverErr(c, to, a, ok) : to \in Addr, a \in Amounts, ok \in BOOLEAN}

\* C22: updateGuardianMultisig by the guardian with the null address fails
\* with ZeroAddr and changes nothing; with any other address it succeeds and
\* in the state it leaves the new guardian is the only caller that the
\* guardian-only functions do not refuse with NotGuardian.
C22_RotationIsImmediate ==
    LET g == guardianMultisig
    IN  /\ updateGuardianMultisigErr(g, NullAddr) = ZeroAddr
        /\ NoEffect(UpdateGuardianMultisig(g, NullAddr))
        /\ \A n \in Addr \ {NullAddr} :
               /\ updateGuardianMultisigErr(g, n) = OK
               /\ ENABLED UpdateGuardianMultisig(g, n)
               /\ ~ENABLED (/\ UpdateGuardianMultisig(g, n)
                            /\ ~(/\ guardianMultisig' = n
                                 /\ \A c \in Callers :
                                        IF c = n
                                        THEN (NotGuardian \notin GuardianOnlyOutcomes(c))'
                                        ELSE (GuardianOnlyOutcomes(c) = {NotGuardian})'))

\* the role went from 1 to 2: the former guardian is refused, the new one
\* can request, and the new one's attempt to hand the role to null is refused
C22_Witness ==
    /\ guardianMultisig = 2
    /\ GuardianOnlyOutcomes(1) = {NotGuardian}
    /\ requestDisableErr(2) = OK
    /\ updateGuardianMultisigErr(2, NullAddr) = ZeroAddr

\* C23 (as amended): a disburse to a target that is not on the allowlist at
\* the time of the call fails, with OperatorNotAllowed whenever the system is
\* not disabled (so whenever the period is payable) and with SystemSuspended
\* when it is; a tranche is paid only in a disburse to an allowed target; an
\* allowlist entry changes only in a setOperator call by the guardian.
C23_OnlyAllowedOperatorsPaid ==
    [][/\ \A to \in Addr :
             ~operatorAllowlist[to] =>
                 \A k \in PeriodKeys, ok \in BOOLEAN :
                     disburseErr(k, to, ok) =
                         (IF disabled THEN SystemSuspended ELSE OperatorNotAllowed)
       /\ paidOut' # paidOut =>
             \E c \in Callers, k \in PeriodKeys, to \in Addr :
                 \E re \in Reentries(PeriodKeys, {to}) :
                     /\ operatorAllowlist[to]
                     /\ disburseErr(k, to, TRUE) = OK
                     /\ Disburse(c, k, to, TRUE, re)
       /\ operatorAllowlist' # operatorAllowlist =>
             \E op \in Addr, ok \in BOOLEAN :
                 /\ setOperatorErr(guardianMultisig) = OK
                 /\ SetOperator(guardianMultisig, op, ok)
                 /\ operatorAllowlist' = [operatorAllowlist EXCEPT ![op] = ok]]_vars

\* C23 as stated: the failure is OperatorNotAllowed in every state
C23_Original ==
    \A k \in PeriodKeys, to \in Addr, ok \in BOOLEAN :
        ~operatorAllowlist[to] => disburseErr(k, to, ok) = OperatorNotAllowed

\* operator 2 was paid one period and then taken off the allowlist: the other
\* period is payable and the escrow funded, yet disburse to 2 is refused
C23_Witness ==
    \E k \in PeriodKeys, j \in PeriodKeys :
        /\ paidOut[j] = 1 /\ ~operatorAllowlist[2]
        /\ periodMeetsTargets(k) /\ stableBalance >= tranche
        /\ disburseErr(k, 2, TRUE) = OperatorNotAllowed

(***************************************************************************)
(* Paid periods, views and the event log (C24-C27)                         *)
(***************************************************************************)
\* C24: a paid period stays paid; while the system is enabled an attestor's
\* attestation of a positive value of a known kind for it still succeeds (as
\* long as the sum fits the unsigned range) and increases the accumulator,
\* but the payable view is false for the key from then on, every disburse for
\* it fails and no step pays it again.
C24_PaidIsTerminal ==
    [][\A k \in PeriodKeys :
          periods[k].paid =>
              /\ periods'[k].paid
              /\ ~periodMeetsTargets(k) /\ ~periodMeetsTargets(k)'
              /\ paidOut'[k] = paidOut[k]
              /\ \A to \in Addr, ok \in BOOLEAN : disburseErr(k, to, ok) # OK
              /\ \A c \in Attestors, kind \in {1, 2}, v \in 1..UintMax :
                     (~disabled /\ Selected(periods[k], kind) + v <= UintMax) =>
                         /\ attestErr(c, k, kind, v) = OK
                         /\ Selected(attestWrites(c, k, kind, v)[k], kind)
                                = Selected(periods[k], kind) + v
              /\ periods'[k].corridorHours >= periods[k].corridorHours
              /\ periods'[k].kgDelivered >= periods[k].kgDelivered]_vars

\* a period paid at its thresholds, the system enabled: more kg can still be
\* attested for it, and it is neither payable nor paid again
C24_Witness ==
    \E k \in PeriodKeys :
        /\ periods[k].paid /\ paidOut[k] = 1 /\ ~disabled
        /\ meetsTargets(periods[k]) /\ ~periodMeetsTargets(k)
        /\ attestErr(2, k, 2, 3) = OK
        /\ stableBalance >= tranche /\ operatorAllowlist[2]
        /\ disburseErr(k, 2, TRUE) = AlreadyPaid

\* C25: getPeriod returns the stored fields, which are (0, 0, false, 0) for
\* a key without a successful attestation, for which the payable view is
\* false as well; a call of either view cannot change any variable, so it
\* creates no period.
C25_ViewsArePureReads ==
    \A k \in PeriodKeys :
        /\ attested[k][1] + attested[k][2] = 0 =>
               /\ getPeriod(k) = <<0, 0, FALSE, 0>>
               /\ ~periodMeetsTargets(k)
        /\ attested[k][1] + attested[k][2] > 0 =>
               /\ getPeriod(k)[1] = attested[k][1] /\ getPeriod(k)[2] = attested[k][2]
               /\ getPeriod(k)[3] = (paidOut[k] = 1)
               /\ getPeriod(k)[4] \in 1..now
        /\ NoEffect(ViewCall(k))

\* one key was attested at time 1 and paid, the other never attested (an
\* attestation of unknown kind for it would be refused): the views of the
\* two keys differ
C25_Witness ==
    \E k \in PeriodKeys, j \in PeriodKeys :
        /\ getPeriod(k) = <<6, 3, TRUE, 1>>
        /\ getPeriod(j) = <<0, 0, FALSE, 0>>
        /\ attestErr(2, j, 3, 3) = UnknownKind
        /\ now = 2

LogsExactly(err, log, record) ==
    log = (IF err = OK THEN <<record>> ELSE <<>>)

\* what the ten functions with an event append
C27_TenFunctionsLogged ==
    /\ \A c \in Callers, amount \in Amounts, ok \in BOOLEAN :
          LogsExactly(depositErr(amount, ok), depositLog(c, amount, ok),
                      [event |-> "Deposit", from |-> c, amount |-> amount])
    /\ \A c \in Callers, op \in Addr, ok \in BOOLEAN :
          LogsExactly(setOperatorErr(c), setOperatorLog(c, op, ok),
                      [event |-> "OperatorSet", op |-> op, ok |-> ok])
    /\ \A c \in Callers, h \in Hashes :
          LogsExactly(setSourceHashErr(c), setSourceHashLog(c, h),
                      [event |-> "SourceHashSet", newHash |-> h, setter |-> c])
    /\ \A c \in Callers, k \in PeriodKeys, kind \in Kinds, v \in 0..UintMax :
          LogsExactly(attestErr(c, k, kind, v), attestLog(c, k, kind, v),
                      [event |-> "Attest", periodId |-> k, kind |-> kind,
                       value |-> v, attestor |-> c])
    /\ \A k \in PeriodKeys, to \in Addr, ok \in BOOLEAN :
          /\ LogsExactly(disburseErr(k, to, ok), disburseLog(k, to, ok, NoReentry),
                         [event |-> "Disburse", periodId |-> k, to |-> to,
                          amount |-> tranche])
          /\ \A re \in Reentries(PeriodKeys, Addr) \ {NoReentry} :
                Len(disburseLog(k, to, ok, re)) =
                    (IF disburseErr(k, to, ok) # OK THEN 0
                     ELSE IF reentryPays(k, re) THEN 2 ELSE 1)
    /\ \A c \in Callers :
          /\ LogsExactly(requestDisableErr(c), requestDisableLog(c),
                         [event |-> "DisableRequested", by |-> c, when |-> now])
          /\ LogsExactly(finalizeDisableErr(c), finalizeDisableLog(c),
                         [event |-> "Disabled", by |-> c, when |-> now])
          /\ LogsExactly(requestEnableErr(c), requestEnableLog(c),
                         [event |-> "EnableRequested", by |-> c, when |-> now])
          /\ LogsExactly(finalizeEnableErr(c), finalizeEnableLog(c),
                         [event |-> "Enabled", by |-> c, when |-> now])
    /\ \A c \in Callers, n \in Addr :
          LogsExactly(updateGuardianMultisigErr(c, n), updateGuardianMultisigLog(c, n),
                      [event |-> "GuardianMultisigUpdated",
                       oldAddr |-> guardianMultisig, newAddr |-> n])

\* C27: each successful call of the ten functions appends exactly one record
\* of its kind with the call's arguments, a failing call appends none, and
\* every successful call that moves funds out of the escrow appends a record.
C27_EverySuccessLogged ==
    /\ C27_TenFunctionsLogged
    /\ \A c \in Callers, to \in Addr, amount \in Amounts, ok \in BOOLEAN :
          (guardianRecoverErr(c, to, amount, ok) = OK /\ amount > 0) =>
              guardianRecoverLog(c, to, amount, ok) # <<>>

(***************************************************************************)
(* Hand-over, payability and configuration (C28-C30)                       *)
(***************************************************************************)
\* C28 (checked under SpecHandover, where every request is issued by the
\* first guardian): the step that hands the role over leaves the pending
\* timestamp, the request and the disabled flag as they are; the new
\* guardian's finalize of the request it found is refused before request
\* time + disableTimelock and succeeds from then on, and it is the new
\* guardian, without a request of its own, who completes it.
C28_RequestSurvivesRotation ==
    [][/\ guardianMultisig' # guardianMultisig =>
             /\ UNCHANGED <<disableRequestedAt, request, disabled>>
             /\ finalizeDisableErr(guardianMultisig)' = finalizeDisableErr(guardianMultisig)
             /\ finalizeEnableErr(guardianMultisig)' = finalizeEnableErr(guardianMultisig)
       /\ (guardianMultisig = 2 /\ disableRequestedAt > 0) =>
             LET due == IF now < request.at + disableTimelock
                        THEN TimelockNotElapsed ELSE OK
             IN  /\ finalizeDisableErr(2) = due
                 /\ finalizeEnableErr(2) = due
                 /\ finalizeDisableErr(1) = NotGuardian
       /\ (guardianMultisig = 2 /\ disabled' # disabled) =>
             /\ FinalizeDisable(2) \/ FinalizeEnable(2)
             /\ disableRequestedAt > 0
             /\ now >= disableRequestedAt + disableTimelock]_vars

\* the first guardian requested a disable under a timelock of 2 and handed
\* the role to 2: at request time + 2 the new guardian's finalize succeeds
C28_Witness ==
    /\ guardianMultisig = 2 /\ disableTimelock > 0
    /\ request.kind = "disable" /\ disableRequestedAt = request.at
    /\ now = request.at + disableTimelock
    /\ finalizeDisableErr(2) = OK

\* C29: a period that has reached both thresholds keeps them in every later
\* state; its payable view turns false only in a step that pays a tranche
\* for the key or in a step that disables the system.
C29_PayableUntilPaidOrDisabled ==
    [][\A k \in PeriodKeys :
          /\ meetsTargets(periods[k]) => meetsTargets(periods'[k])
          /\ (periodMeetsTargets(k) /\ ~periodMeetsTargets(k)') =>
                 \/ /\ periods'[k].paid
                    /\ paidOut'[k] = paidOut[k] + 1
                    /\ stableBalance' < stableBalance
                 \/ /\ disabled' /\ ~disabled
                    /\ \E c \in Callers : FinalizeDisable(c) \/ FinalizeEnable(c)]_vars

\* a period past its kg threshold is payable although the guardian role has
\* changed hands, the operator is off the allowlist and the escrow is empty
C29_Witness ==
    \E k \in PeriodKeys :
        /\ periodMeetsTargets(k) /\ periods[k].kgDelivered > kgTarget
        /\ guardianMultisig = 2 /\ ~operatorAllowlist[2] /\ stableBalance = 0
        /\ now = 2

C31_DisburseIgnoresCaller ==
    \A k \in PeriodKeys, to \in Addr, ok \in BOOLEAN,
       re \in Reentries(PeriodKeys, Addr) :
        /\ \A c1, c2 \in Callers :
               ~ENABLED (/\ Disburse(c1, k, to, ok, re)
                         /\ ~Disburse(c2, k, to, ok, re))
        /\ (disburseErr(k, to, ok) = OperatorNotAllowed) =>
               ~operatorAllowlist[to]
        /\ (disburseErr(k, to, ok) = OK) =>
               \A c \in Callers :
                   ENABLED (Disburse(c, k, to, ok, re) /\ paidOut'[k] = paidOut[k] + 1)

\* a caller that is neither the guardian nor on the allowlist is about to
\* have a tranche paid out to the allowed operator
C31_Witness ==
    /\ guardianMultisig = 2 /\ ~operatorAllowlist[1] /\ operatorAllowlist[2]
    /\ ENABLED (/\ Disburse(1, 1, 2, TRUE, NoReentry)
                /\ paidOut'[1] = paidOut[1] + 1
                /\ stableBalance' = stableBalance - tranche)

\* the values an attestation is made with in the specifications
AttestValues == {0, 3, 6}

\* the fields of period j that an attestation of the other kind, or for
\* another key, must leave alone
SameAccumulators(j) ==
    /\ periods'[j].corridorHours = periods[j].corridorHours
    /\ periods'[j].kgDelivered = periods[j].kgDelivered
    /\ periods'[j].createdAt = periods[j].createdAt

\* a successful attest(k, kind, value) step keeps to its frame
AttestFramed(k, kind, value) ==
    /\ \A j \in PeriodKeys \ {k} : periods'[j] = periods[j]
    /\ periods'[k].paid = periods[k].paid
    /\ periods'[k].createdAt =
           IF periods[k].createdAt = 0 THEN now ELSE periods[k].createdAt
    /\ IF kind = 1
       THEN /\ periods'[k].corridorHours = periods[k].corridorHours + value
            /\ periods'[k].kgDelivered = periods[k].kgDelivered
       ELSE /\ periods'[k].kgDelivered = periods[k].kgDelivered + value
            /\ periods'[k].corridorHours = periods[k].corridorHours

C33_GuardianNeverNull ==
    /\ guardianMultisig # NullAddr
    /\ constructorErr(NullAddr) = GuardianZero
    /\ \A c \in Callers :
           /\ updateGuardianMultisigErr(c, NullAddr) \in {NotGuardian, ZeroAddr}
           /\ NoEffect(UpdateGuardianMultisig(c, NullAddr))
    /\ onlyGuardian(guardianMultisig) /\ ~onlyGuardian(NullAddr)
    /\ requestDisableErr(guardianMultisig) = OK
    /\ requestEnableErr(guardianMultisig) = OK
    /\ setSourceHashErr(guardianMultisig) = OK

\* the role has been handed over, and the new guardian's attempt to hand it
\* to the null address is refused
C33_Witness ==
    /\ guardianMultisig = 2
    /\ updateGuardianMultisigErr(2, NullAddr) = ZeroAddr
    /\ updateGuardianMultisigErr(2, 1) = OK

\* the accumulator of period k that an attestation of the kind adds to
Accumulator(k, kind) ==
    IF kind = 1 THEN periods[k].corridorHours ELSE periods[k].kgDelivered

\* C34: accumulators never wrap around: an attestation by an attestor, in an
\* enabled system, of a value that would take the accumulator past the largest
\* unsigned value is rejected with the arithmetic panic and changes nothing,
\* every stored accumulator is within the width and equals the plain sum of
\* the accepted values, and so a threshold met by that sum is met in storage.
C34_AccumulatorsNeverWrap ==
    \A k \in PeriodKeys, kind \in {1, 2} :
        /\ Accumulator(k, kind) <= UintMax
        /\ Accumulator(k, kind) = attested[k][kind]
        /\ (attested[k][1] >= hoursTarget /\ attested[k][2] >= kgTarget)
               => meetsTargets(periods[k])
        /\ \A c \in Callers, v \in AttestValues :
               (/\ notDisabled /\ isAttestor(c) /\ v > 0
                /\ Accumulator(k, kind) + v > UintMax)
                   => /\ attestErr(c, k, kind, v) = Panic
                      /\ NoEffect(Attest(c, k, kind, v))

\* the hours of period 1 have met the target, one more attestation of 3
\* hours would pass the largest value and is refused
C34_Witness ==
    /\ periods[1].corridorHours = 6 /\ periods[1].kgDelivered = 3
    /\ meetsTargets(periods[1])
    /\ 6 + 3 > UintMax /\ (6 + 3) % (UintMax + 1) < hoursTarget
    /\ attestErr(2, 1, 1, 3) = Panic

=============================================================================
